---- MODULE Spec2Model ----
(***************************************************************************)
(* AES-CBC packet transform of n2n (src/transform_aes.c).                  *)
(*                                                                         *)
(* Buffers are sequences of bytes (0..255); C index i is sequence index    *)
(* i+1.  The OpenSSL primitives (SHA512, AES block encryption) are         *)
(* replaced by small keyed stand-ins with the same algebra: the digest is  *)
(* a deterministic 64-byte function of the secret, the block cipher is a   *)
(* keyed bijection on 16-byte blocks with a separate inverse, and CBC      *)
(* chaining is done with a real byte-wise XOR.                             *)
(***************************************************************************)
EXTENDS Integers, Sequences, FiniteSets, TLC

\* ------------------------------------------------------------ bounds
\* Scratch capacity in cipher blocks (n2n.h sets N2N_PKT_BUF_SIZE to 2048,
\* i.e. 128 blocks; the model keeps it a whole number of blocks).
PktBlocks == 3
\* Width of the unsigned size type (size_t), scaled down from 64.
SIZE_BITS == 12

\* --------------------------------------------------------- constants
N2N_AES_TRANSFORM_VERSION == 1
AES256_KEY_BYTES == 256 \div 8
AES192_KEY_BYTES == 192 \div 8
AES128_KEY_BYTES == 128 \div 8
TRANSOP_AES_VER_SIZE == 1
TRANSOP_AES_SA_SIZE == 4
TRANSOP_AES_IV_SEED_SIZE == 8
TRANSOP_AES_PREAMBLE_SIZE ==
    TRANSOP_AES_VER_SIZE + TRANSOP_AES_SA_SIZE + TRANSOP_AES_IV_SEED_SIZE
TRANSOP_AES_NONCE_SIZE == 4
AES_BLOCK_SIZE == 16
SHA512_DIGEST_LENGTH == 64
N2N_PKT_BUF_SIZE == AES_BLOCK_SIZE * PktBlocks

\* size_t arithmetic: modulo 2^SIZE_BITS
SIZE_MOD == 2 ^ SIZE_BITS
SzAdd(a, b) == (a + b) % SIZE_MOD
SzSub(a, b) == (a - b + SIZE_MOD) % SIZE_MOD

\* ------------------------------------------------------ byte helpers
Max2(a, b) == IF a >= b THEN a ELSE b

Zeros(n) == [i \in 1 .. n |-> 0]

\* bytes lo .. hi-1 (C indices) of buffer b
Slice(b, lo, hi) == SubSeq(b, lo + 1, hi)

\* memory representation of a 32-bit value on the (little-endian) host
LE32(v) ==
    << v % 256, (v \div 256) % 256, (v \div 65536) % 256, (v \div 16777216) % 256 >>

RECURSIVE XorBits(_, _)
XorBits(a, b) ==
    IF a = 0 THEN b
    ELSE IF b = 0 THEN a
    ELSE ((a + b) % 2) + 2 * XorBits(a \div 2, b \div 2)

\* exclusive or of two bytes, by 4-bit halves
XorNibble == [a \in 0 .. 15, b \in 0 .. 15 |-> XorBits(a, b)]
Xor(a, b) == XorNibble[a % 16, b % 16] + 16 * XorNibble[a \div 16, b \div 16]

XorBlock(x, y) == [i \in 1 .. 16 |-> Xor(x[i], y[i])]

RECURSIVE SumSeq(_)
SumSeq(s) == IF s = << >> THEN 0 ELSE (Head(s) + SumSeq(Tail(s))) % 256

\* -------------------------------------------- library stand-ins
\* SHA512(key, key_size, out): 64 bytes determined by the secret.
SHA512(key) ==
    [i \in 1 .. SHA512_DIGEST_LENGTH |->
        (17 * i + 31 * Len(key) + (i + 3) * SumSeq(key)) % 256]

\* The key schedule: the round count of the key size and a round key that
\* mixes every byte of the bits/8 bytes of key material used.
KeySchedule(userKey, bits) ==
    LET used == SubSeq(userKey, 1, bits \div 8)
        mix  == SumSeq(used) + 6 + (bits \div 32)
    IN  [rounds |-> 6 + (bits \div 32),
         bits   |-> bits,
         key    |-> used,
         rd_key |-> [i \in 1 .. 16 |-> (used[i] + mix) % 256]]

\* AES_set_encrypt_key(userKey, bits, &key)
AES_set_encrypt_key(userKey, bits) == KeySchedule(userKey, bits)

\* AES_set_decrypt_key(userKey, bits, &key)
AES_set_decrypt_key(userKey, bits) == KeySchedule(userKey, bits)

\* one block through the cipher: a bijection on blocks chosen by the key
AES_encrypt(key, blk) ==
    [i \in 1 .. 16 |-> (blk[i] + key.rd_key[i]) % 256]

AES_decrypt(key, blk) ==
    [i \in 1 .. 16 |-> (blk[i] + 256 - key.rd_key[i]) % 256]

\* AES_ecb_encrypt(in, out, key, AES_ENCRYPT)
AES_ecb_encrypt(blk, key) == AES_encrypt(key, blk)

\* AES_cbc_encrypt(in, out, len, key, ivec, AES_ENCRYPT), len a whole number of blocks
RECURSIVE CbcEncrypt(_, _, _)
CbcEncrypt(in, key, ivec) ==
    IF Len(in) < AES_BLOCK_SIZE THEN << >>
    ELSE LET c == AES_encrypt(key, XorBlock(SubSeq(in, 1, AES_BLOCK_SIZE), ivec))
         IN  c \o CbcEncrypt(SubSeq(in, AES_BLOCK_SIZE + 1, Len(in)), key, c)

\* AES_cbc_encrypt(in, out, len, key, ivec, AES_DECRYPT)
RECURSIVE CbcDecrypt(_, _, _)
CbcDecrypt(in, key, ivec) ==
    IF Len(in) < AES_BLOCK_SIZE THEN << >>
    ELSE LET c == SubSeq(in, 1, AES_BLOCK_SIZE)
         IN  XorBlock(AES_decrypt(key, c), ivec)
                 \o CbcDecrypt(SubSeq(in, AES_BLOCK_SIZE + 1, Len(in)), key, c)

\* ------------------------------------------------------ key set-up
\* variant: the thresholds compared with > in place of >=
aes_best_keysize_strict(numBytes) ==
    IF numBytes > AES256_KEY_BYTES THEN AES256_KEY_BYTES
    ELSE IF numBytes > AES192_KEY_BYTES THEN AES192_KEY_BYTES
    ELSE AES128_KEY_BYTES

aes_best_keysize(numBytes) ==
    IF numBytes >= AES256_KEY_BYTES THEN AES256_KEY_BYTES
    ELSE IF numBytes >= AES192_KEY_BYTES THEN AES192_KEY_BYTES
    ELSE AES128_KEY_BYTES

\* struct sha512_keybuf: the three slices of the digest
KeybufEncDecKey(keybuf) == Slice(keybuf, 0, AES256_KEY_BYTES)
KeybufIvEncKey(keybuf) ==
    Slice(keybuf, AES256_KEY_BYTES, AES256_KEY_BYTES + AES128_KEY_BYTES)
KeybufIvExtVal(keybuf) ==
    Slice(keybuf, AES256_KEY_BYTES + AES128_KEY_BYTES,
          AES256_KEY_BYTES + 2 * AES128_KEY_BYTES)

EncKeyBits(key_size) == 8 * aes_best_keysize(key_size)
DecKeyBits(key_size) == 8 * aes_best_keysize(key_size)
IvKeyBits == AES128_KEY_BYTES * 8

setup_aes_key(key) ==
    LET keybuf == SHA512(key)
    IN  [enc_key    |-> AES_set_encrypt_key(KeybufEncDecKey(keybuf), EncKeyBits(Len(key))),
         dec_key    |-> AES_set_decrypt_key(KeybufEncDecKey(keybuf), DecKeyBits(Len(key))),
         iv_enc_key |-> AES_set_encrypt_key(KeybufIvEncKey(keybuf), IvKeyBits),
         iv_ext_val |-> KeybufIvExtVal(keybuf)]

\* iv_seed is held as its 8 bytes in memory
set_aes_cbc_iv(p, iv_seed) ==
    LET iv_full == Slice(p.iv_ext_val, 0, TRANSOP_AES_IV_SEED_SIZE) \o iv_seed
    IN  AES_ecb_encrypt(iv_full, p.iv_enc_key)

\* ------------------------------------------------- wire helpers
\* encode_uint8 / encode_uint32 / encode_buf: append to the output at idx
encode_uint8(out, v) == out \o << v % 256 >>
encode_uint32(out, v) ==
    out \o << (v \div 16777216) % 256, (v \div 65536) % 256, (v \div 256) % 256, v % 256 >>
encode_buf(out, bytes) == out \o bytes
\* decode_uint8 at idx 0, decode_buf of the seed at idx 5
decode_uint8(in) == in[1]
decode_buf(in, idx, n) == Slice(in, idx, idx + n)

\* ------------------------------------------------------------ inputs
\* what the callers and the network hand to the transform
NoPriv == [enc_key |-> << >>, dec_key |-> << >>, iv_enc_key |-> << >>, iv_ext_val |-> << >>]

\* byte at C index i of the caller's plaintext buffer
PayloadByte(pat, i) == (pat + 7 * i) % 256
Payload(pat, n) == [i \in 1 .. n |-> PayloadByte(pat, i - 1)]
Patterns == {17, 200}

\* values returned by rand(): <<first seed half, second seed half, nonce>>
Draws == { << 1, 2, 3 >>, << 70000, 515, 16909060 >> }

\* contents of the memory next to the scratch array
JunkBytes == {0, 165}

SecretOf(n, b) == [i \in 1 .. n |-> b + (i % 5)]
Secrets == { SecretOf(8, 97), SecretOf(32, 65) }
KeySecrets == { SecretOf(n, b) : n \in 0 .. 40, b \in {48, 97, 120} }

InLens ==
    {0, 12, 21, N2N_PKT_BUF_SIZE - 5, N2N_PKT_BUF_SIZE - 4, N2N_PKT_BUF_SIZE - 3,
     SIZE_MOD - 4}

\* ------------------------------------------------------------ encode
EncFitsAssembly(in_len) == SzAdd(in_len, TRANSOP_AES_NONCE_SIZE) <= N2N_PKT_BUF_SIZE

EncFitsOutbuf(in_len, out_len) ==
    SzAdd(SzAdd(in_len, TRANSOP_AES_NONCE_SIZE), TRANSOP_AES_PREAMBLE_SIZE) <= out_len

\* int len = in_len + TRANSOP_AES_NONCE_SIZE
EncLen(in_len) == SzAdd(in_len, TRANSOP_AES_NONCE_SIZE)

EncLen2(len) == ((len \div AES_BLOCK_SIZE) + 1) * AES_BLOCK_SIZE

\* uint8_t padding = len2 - len
EncPadding(len) == (EncLen2(len) - len) % 256

\* iv_seed = (rand() << 32) | rand(), as its 8 bytes in memory
EncSeed(d) == LE32(d[2]) \o LE32(d[1])

EncPreamble(iv_seed) ==
    encode_buf(encode_uint32(encode_uint8(<< >>, N2N_AES_TRANSFORM_VERSION), 0), iv_seed)

\* byte at C index i of the scratch memory after the nonce store and the
\* memcpy; indices at or past N2N_PKT_BUF_SIZE lie outside the array
EncAssemblyByte(i, in_len, pat, nonce, junk) ==
    IF i < TRANSOP_AES_NONCE_SIZE THEN LE32(nonce)[i + 1]
    ELSE IF i < TRANSOP_AES_NONCE_SIZE + in_len
         THEN PayloadByte(pat, i - TRANSOP_AES_NONCE_SIZE)
    ELSE IF i < N2N_PKT_BUF_SIZE THEN 0
    ELSE junk

\* the len2 bytes handed to AES_cbc_encrypt, after assembly[len2 - 1] = padding
EncSource(in_len, pat, nonce, junk) ==
    LET len  == EncLen(in_len)
        len2 == EncLen2(len)
    IN  [i \in 1 .. len2 |->
            IF i = len2 THEN EncPadding(len)
            ELSE EncAssemblyByte(i - 1, in_len, pat, nonce, junk)]

\* one past the highest index of the scratch array the call touches
EncAsmHi(in_len) ==
    Max2(TRANSOP_AES_NONCE_SIZE + in_len, EncLen2(EncLen(in_len)))

Rejected(code) ==
    [ret |-> code, out |-> << >>, asm |-> << >>, asm_hi |-> 0, ub |-> FALSE]

\* transop_encode_aes as a function of its arguments and random draws
EncodeRun(p, in_len, pat, out_len, d, junk) ==
    IF ~EncFitsAssembly(in_len) THEN Rejected(-1)
    ELSE IF ~EncFitsOutbuf(in_len, out_len) THEN Rejected(-1)
    ELSE LET iv_seed == EncSeed(d)
             src     == EncSource(in_len, pat, d[3], junk)
             len2    == Len(src)
             ivec    == set_aes_cbc_iv(p, iv_seed)
         IN  [ret    |-> len2 + TRANSOP_AES_PREAMBLE_SIZE,
              out    |-> EncPreamble(iv_seed) \o CbcEncrypt(src, p.enc_key, ivec),
              asm    |-> src,
              asm_hi |-> EncAsmHi(in_len),
              ub     |-> \/ EncAsmHi(in_len) > N2N_PKT_BUF_SIZE
                         \/ len2 + TRANSOP_AES_PREAMBLE_SIZE > out_len]

\* ------------------------------------------------------------ decode
DecSizeOk(in_len) ==
    /\ SzSub(in_len, TRANSOP_AES_PREAMBLE_SIZE) <= N2N_PKT_BUF_SIZE
    /\ in_len >= TRANSOP_AES_PREAMBLE_SIZE + TRANSOP_AES_NONCE_SIZE

DecVersionOk(frame) == N2N_AES_TRANSFORM_VERSION = decode_uint8(frame)

DecCipherLen(in_len) == in_len - TRANSOP_AES_PREAMBLE_SIZE

DecAligned(len) == 0 = (len % AES_BLOCK_SIZE)

\* variant: the alignment branch only logs, as the padding branch does
DecMisalignedLen_kept(len) == len

\* the else branch of the alignment test: len = 0
DecMisalignedLen(len) == 0

DecSeed(frame) == decode_buf(frame, TRANSOP_AES_VER_SIZE + TRANSOP_AES_SA_SIZE,
                             TRANSOP_AES_IV_SEED_SIZE)

DecAssembly(p, frame, len) ==
    CbcDecrypt(Slice(frame, TRANSOP_AES_PREAMBLE_SIZE, TRANSOP_AES_PREAMBLE_SIZE + len),
               p.dec_key, set_aes_cbc_iv(p, DecSeed(frame)))

\* padding = assembly[len - 1] & 0xff
DecPadding(assembly, len) == assembly[len] % 256

DecPaddingOk(len, padding) == len >= padding + TRANSOP_AES_NONCE_SIZE

\* the else branch of the padding test only logs: len keeps its value
DecBadPaddingLen(len) == len

\* variant: the nonce is not taken off the length
DecPayloadLen_withNonce(len, padding) == len - padding

DecPayloadLen(len, padding) == len - padding - TRANSOP_AES_NONCE_SIZE

\* memcpy(outbuf, assembly + TRANSOP_AES_NONCE_SIZE, len): out_len is not consulted
DecCopy(assembly, len) ==
    Slice(assembly, TRANSOP_AES_NONCE_SIZE, TRANSOP_AES_NONCE_SIZE + len)

\* transop_decode_aes from the padding byte on, given the decrypted scratch
DecodeTail(assembly, len, out_len) ==
    LET padding == DecPadding(assembly, len)
    IN  IF ~DecPaddingOk(len, padding)
        THEN [ret |-> DecBadPaddingLen(len), out |-> << >>,
              asm |-> assembly, asm_hi |-> len, ub |-> FALSE]
        ELSE LET n == DecPayloadLen(len, padding)
                 o == DecCopy(assembly, n)
             IN  [ret |-> n, out |-> o, asm |-> assembly, asm_hi |-> len,
                  ub |-> Len(o) > out_len]

\* the frame passes the size, version and alignment tests
DecChecksOk(frame) ==
    /\ DecSizeOk(Len(frame))
    /\ DecVersionOk(frame)
    /\ DecAligned(DecCipherLen(Len(frame)))

\* what decode returns when one of these tests fails
DecRejectLen(frame) ==
    IF ~DecSizeOk(Len(frame)) THEN 0
    ELSE IF ~DecVersionOk(frame) THEN 0
    ELSE DecMisalignedLen(DecCipherLen(Len(frame)))

\* transop_decode_aes as a function of its arguments
DecodeRun(p, frame, out_len) ==
    IF ~DecChecksOk(frame) THEN Rejected(DecRejectLen(frame))
    ELSE DecodeTail(DecAssembly(p, frame, DecCipherLen(Len(frame))),
                    DecCipherLen(Len(frame)), out_len)

\* variant: the tick rotates the IV extension value
transop_tick_aes_rekey(p) == [p EXCEPT !.iv_ext_val = Zeros(Len(p.iv_ext_val))]

\* the tick hook has an empty body
transop_tick_aes(p) == p

\* ----------------------------------------------------- state machine
VARIABLES
    conf,       \* conf->encrypt_key, the configured secret
    lifecycle,  \* "Uninitialized", "Ready", "Failed" or "Released"
    priv,       \* the transop_aes_t behind ttt->priv
    wire,       \* the frame the latest encode call produced, with its plaintext
    call,       \* the latest call of fwd / rev / tick: arguments and effects
    fault,      \* the process was stopped by an out-of-bounds access
    thr         \* calls in progress, one per concurrent caller

vars == << conf, lifecycle, priv, wire, call, fault, thr >>

\* capacity a caller passes when it has room for any frame
OutCap == N2N_PKT_BUF_SIZE + 2 * AES_BLOCK_SIZE

EncOutLens(in_len) ==
    {SzAdd(in_len, 16), SzAdd(in_len, 17),
     EncLen2(EncLen(in_len)) + TRANSOP_AES_PREAMBLE_SIZE, OutCap}

DecOutLens == {8, N2N_PKT_BUF_SIZE}

\* what the network may do to a frame before it is handed to decode
Tampers == {"none", "version", "sa", "trunc", "short", "pad64", "pad1"}

SetByte(f, i, v) == [f EXCEPT ![i + 1] = v]

Tamper(f, t) ==
    IF Len(f) < TRANSOP_AES_PREAMBLE_SIZE + AES_BLOCK_SIZE THEN f
    ELSE CASE t = "version" -> SetByte(f, 0, 2)
           [] t = "sa"      -> SetByte(f, 2, 9)
           [] t = "trunc"   -> SubSeq(f, 1, Len(f) - 1)
           [] t = "short"   -> SubSeq(f, 1, AES_BLOCK_SIZE)
           [] t = "pad64"   -> SetByte(f, Len(f) - 1, (f[Len(f)] + 64) % 256)
           [] t = "pad1"    -> SetByte(f, Len(f) - 1, (f[Len(f)] + 1) % 256)
           [] OTHER         -> f

NoWire == [valid |-> FALSE, frame |-> << >>, in_len |-> 0, pat |-> 0]

NoCall ==
    [op |-> "none", in_len |-> 0, pat |-> 0, out_len |-> 0, tamper |-> "none",
     frame |-> << >>, ret |-> 0, out |-> << >>, asm |-> << >>, asm_hi |-> 0,
     ub |-> FALSE, returned |-> FALSE]

Callers == {"edge", "peer"}
Idle == [pc |-> "idle", op |-> "none", in_len |-> 0, pat |-> 0, d |-> << 0, 0, 0 >>,
         frame |-> << >>, ivec |-> << >>, ret |-> 0, out |-> << >>]

Init ==
    /\ conf = << >>
    /\ lifecycle = "Uninitialized"
    /\ priv = NoPriv
    /\ wire = NoWire
    /\ call = NoCall
    /\ fault = FALSE
    /\ thr = [c \in Callers |-> Idle]

\* n2n_transop_aes_cbc_init: calloc may fail; otherwise the keys are set up
n2n_transop_aes_cbc_init(secrets) ==
    /\ lifecycle = "Uninitialized"
    /\ \E key \in secrets, allocated \in BOOLEAN :
          /\ conf' = key
          /\ lifecycle' = IF allocated THEN "Ready" ELSE "Failed"
          /\ priv' = IF allocated THEN setup_aes_key(key) ELSE NoPriv
    /\ UNCHANGED << wire, call, fault, thr >>

\* ttt->fwd
transop_encode_aes ==
    /\ lifecycle = "Ready"
    /\ ~fault
    /\ \E in_len \in InLens, pat \in Patterns, d \in Draws :
         \E out_len \in EncOutLens(in_len) :
           \E junk \in (IF EncFitsAssembly(in_len) /\ EncFitsOutbuf(in_len, out_len)
                           /\ EncAsmHi(in_len) > N2N_PKT_BUF_SIZE
                        THEN JunkBytes ELSE {0}) :
             \E r \in {EncodeRun(priv, in_len, pat, out_len, d, junk)} :
             \E crash \in (IF r.ub THEN BOOLEAN ELSE {FALSE}) :
                /\ call' = [op |-> "encode", in_len |-> in_len, pat |-> pat,
                            out_len |-> out_len, tamper |-> "none", frame |-> << >>,
                            ret |-> IF crash THEN 0 ELSE r.ret,
                            out |-> r.out, asm |-> r.asm, asm_hi |-> r.asm_hi,
                            ub |-> r.ub, returned |-> ~crash]
                /\ fault' = crash
                /\ wire' = IF ~crash /\ r.ret >= 0
                           THEN [valid |-> TRUE, frame |-> r.out,
                                 in_len |-> in_len, pat |-> pat]
                           ELSE NoWire
    /\ UNCHANGED << conf, lifecycle, priv, thr >>

\* ttt->rev
transop_decode_aes ==
    /\ lifecycle = "Ready"
    /\ ~fault
    /\ \E t \in Tampers, out_len \in DecOutLens :
         \E frame \in {Tamper(wire.frame, t)} :
         \E r \in {DecodeRun(priv, frame, out_len)} :
             \E crash \in (IF r.ub THEN BOOLEAN ELSE {FALSE}) :
                /\ call' = [op |-> "decode", in_len |-> Len(frame), pat |-> 0,
                            out_len |-> out_len, tamper |-> t, frame |-> frame,
                            ret |-> IF crash THEN 0 ELSE r.ret,
                            out |-> r.out, asm |-> r.asm, asm_hi |-> r.asm_hi,
                            ub |-> r.ub, returned |-> ~crash]
                /\ fault' = crash
    /\ UNCHANGED << conf, lifecycle, priv, wire, thr >>

\* ttt->tick
TickAes ==
    /\ lifecycle = "Ready"
    /\ ~fault
    /\ priv' = transop_tick_aes(priv)
    /\ call' = [NoCall EXCEPT !.op = "tick", !.returned = TRUE]
    /\ UNCHANGED << conf, lifecycle, wire, fault, thr >>

\* ttt->deinit
transop_deinit_aes ==
    /\ lifecycle = "Ready"
    /\ ~fault
    /\ \A c \in Callers : thr[c].pc = "idle"
    /\ lifecycle' = "Released"
    /\ priv' = NoPriv
    /\ UNCHANGED << conf, wire, call, fault, thr >>

Next ==
    \/ n2n_transop_aes_cbc_init(Secrets)
    \/ transop_encode_aes
    \/ transop_decode_aes
    \/ TickAes
    \/ transop_deinit_aes

Spec == Init /\ [][Next]_vars

\* --------------------------------------------- the handlers, step by step
\* Several callers inside fwd / rev at once.  A call reads priv twice, in
\* set_aes_cbc_iv and in AES_cbc_encrypt; other callers' steps and ticks
\* may run in between.  Every caller passes a buffer of OutCap bytes.
ConcInLens == {0, 12, N2N_PKT_BUF_SIZE - 3}
ConcTampers == {"none", "version"}

Running == lifecycle = "Ready" /\ ~fault

FwdBegin(c) ==
    /\ Running
    /\ thr[c].pc = "idle"
    /\ \E in_len \in ConcInLens, d \in Draws :
          thr' = [thr EXCEPT ![c] =
                    IF EncFitsAssembly(in_len) /\ EncFitsOutbuf(in_len, OutCap)
                    THEN [Idle EXCEPT !.pc = "fwd_iv", !.op = "encode",
                                      !.in_len = in_len, !.pat = 17, !.d = d,
                                      !.out = EncPreamble(EncSeed(d))]
                    ELSE [Idle EXCEPT !.op = "encode", !.in_len = in_len,
                                      !.pat = 17, !.d = d, !.ret = -1]]
    /\ UNCHANGED << conf, lifecycle, priv, wire, call, fault >>

FwdIv(c) ==
    /\ Running
    /\ thr[c].pc = "fwd_iv"
    /\ thr' = [thr EXCEPT ![c].pc = "fwd_cbc",
                          ![c].ivec = set_aes_cbc_iv(priv, EncSeed(thr[c].d))]
    /\ UNCHANGED << conf, lifecycle, priv, wire, call, fault >>

FwdCbc(c) ==
    /\ Running
    /\ thr[c].pc = "fwd_cbc"
    /\ \E src \in {EncSource(thr[c].in_len, thr[c].pat, thr[c].d[3], 0)} :
          thr' = [thr EXCEPT ![c].pc = "idle",
                             ![c].out = @ \o CbcEncrypt(src, priv.enc_key, thr[c].ivec),
                             ![c].ret = Len(src) + TRANSOP_AES_PREAMBLE_SIZE]
    /\ UNCHANGED << conf, lifecycle, priv, wire, call, fault >>

\* frames on the network: what the callers' finished encode calls produced
FramesSent ==
    { thr[c].out : c \in { x \in Callers : thr[x].pc = "idle" /\ thr[x].op = "encode" } }

RevBegin(c) ==
    /\ Running
    /\ thr[c].pc = "idle"
    /\ \E f \in FramesSent, t \in ConcTampers :
         \E frame \in {Tamper(f, t)} :
          thr' = [thr EXCEPT ![c] =
                    IF DecChecksOk(frame)
                    THEN [Idle EXCEPT !.pc = "rev_iv", !.op = "decode", !.frame = frame]
                    ELSE [Idle EXCEPT !.op = "decode", !.frame = frame,
                                      !.ret = DecRejectLen(frame)]]
    /\ UNCHANGED << conf, lifecycle, priv, wire, call, fault >>

RevIv(c) ==
    /\ Running
    /\ thr[c].pc = "rev_iv"
    /\ thr' = [thr EXCEPT ![c].pc = "rev_cbc",
                          ![c].ivec = set_aes_cbc_iv(priv, DecSeed(thr[c].frame))]
    /\ UNCHANGED << conf, lifecycle, priv, wire, call, fault >>

RevCbc(c) ==
    /\ Running
    /\ thr[c].pc = "rev_cbc"
    /\ \E len \in {DecCipherLen(Len(thr[c].frame))} :
       \E assembly \in {CbcDecrypt(Slice(thr[c].frame, TRANSOP_AES_PREAMBLE_SIZE,
                                         TRANSOP_AES_PREAMBLE_SIZE + len),
                                   priv.dec_key, thr[c].ivec)} :
       \E r \in {DecodeTail(assembly, len, OutCap)} :
          thr' = [thr EXCEPT ![c].pc = "idle", ![c].out = r.out, ![c].ret = r.ret]
    /\ UNCHANGED << conf, lifecycle, priv, wire, call, fault >>

NextConc ==
    \/ n2n_transop_aes_cbc_init(Secrets)
    \/ \E c \in Callers : FwdBegin(c)
    \/ \E c \in Callers : FwdIv(c)
    \/ \E c \in Callers : FwdCbc(c)
    \/ \E c \in Callers : RevBegin(c)
    \/ \E c \in Callers : RevIv(c)
    \/ \E c \in Callers : RevCbc(c)
    \/ TickAes
    \/ transop_deinit_aes

SpecConc == Init /\ [][NextConc]_vars

\* ------------------------------------------- key set-up over many secrets
NextKey ==
    \/ n2n_transop_aes_cbc_init(KeySecrets)
    \/ TickAes
    \/ transop_deinit_aes

SpecKey == Init /\ [][NextKey]_vars

\* ------------------------------------------------------------ claims
\* length of the frame encode builds for a plaintext of n bytes
FrameLen(n) == 13 + 16 * (((n + 4) \div 16) + 1)

LastByte(b) == b[Len(b)]

\* the latest call is a decode of the untouched frame of the latest encode
DecodedWire == call.op = "decode" /\ call.tamper = "none" /\ wire.valid

\* C1: round trip. For every plaintext P of length 0 .. N2N_PKT_BUF_SIZE - 4 and
\* an output buffer that holds the frame, encode succeeds, and decode of the
\* frame encode produced returns len(P) and writes exactly the bytes of P.
C1_RoundTrip ==
    /\ (call.op = "encode" /\ call.in_len <= N2N_PKT_BUF_SIZE - 4
            /\ call.out_len >= FrameLen(call.in_len))
        => (call.returned /\ call.ret = FrameLen(call.in_len))
    /\ (DecodedWire /\ wire.in_len <= N2N_PKT_BUF_SIZE - 4
            /\ call.out_len >= wire.in_len)
        => (call.returned /\ call.ret = wire.in_len
                /\ call.out = Payload(wire.pat, wire.in_len))

\* The round trip for plaintexts of at most N2N_PKT_BUF_SIZE - 5 bytes, whose
\* padded length still fits the scratch array.
RoundTripBelowLimit ==
    (DecodedWire /\ wire.in_len <= N2N_PKT_BUF_SIZE - 5 /\ call.out_len >= wire.in_len)
        => (call.returned /\ call.ret = wire.in_len
                /\ call.out = Payload(wire.pat, wire.in_len))

\* C2: invalid-padding rejection. A frame that passes the size, version and
\* block-alignment checks but whose last decrypted byte padLen has
\* cipherLen < padLen + 4 makes decode return 0 and write nothing.
C2_InvalidPaddingRejected ==
    (call.op = "decode"
        /\ call.in_len >= 17 /\ call.in_len - 13 <= N2N_PKT_BUF_SIZE
        /\ call.frame[1] = 1
        /\ (call.in_len - 13) % 16 = 0
        /\ call.in_len - 13 < LastByte(call.asm) + 4)
        => (call.returned /\ call.ret = 0 /\ call.out = << >>)

\* C3: encode output capacity. A successful encode returns a length <= out_len
\* and writes no byte at index >= out_len; if out_len cannot hold preamble +
\* ciphertext, encode returns a negative value and writes nothing.
C3_EncodeWithinCapacity ==
    (call.op = "encode" /\ call.in_len <= N2N_PKT_BUF_SIZE - 4)
        => /\ (call.returned /\ call.ret >= 0)
                => (call.ret <= call.out_len /\ Len(call.out) <= call.out_len)
           /\ (call.out_len < FrameLen(call.in_len))
                => (call.returned /\ call.ret < 0 /\ call.out = << >>)

\* C8: encode scratch bound. For every in_len of the size type, either encode
\* rejects the input and writes nothing, or every index of the scratch array
\* it writes or encrypts from is below N2N_PKT_BUF_SIZE.
C8_EncodeScratchBound ==
    (call.op = "encode")
        => \/ (call.returned /\ call.ret < 0 /\ call.out = << >>)
           \/ call.asm_hi <= N2N_PKT_BUF_SIZE

\* C9: padding and frame length. For every accepted plaintext of length n,
\* encode returns 13 + 16 * (floor((n + 4) / 16) + 1); the pad length is
\* 16 - ((n + 4) mod 16); the buffer that is encrypted is nonce || plaintext
\* || pad with the last pad byte the pad length and the others zero; the frame
\* starts with 1, four zero bytes and the 8-byte seed.
\* (Checked on the calls whose output buffer holds the whole frame.)
C9_PaddingAndFrameLength ==
    (call.op = "encode" /\ call.in_len + 4 <= N2N_PKT_BUF_SIZE
        /\ FrameLen(call.in_len) <= call.out_len)
        => LET n   == call.in_len
               pad == 16 - ((n + 4) % 16)
           IN  /\ call.returned
               /\ call.ret = 13 + 16 * (((n + 4) \div 16) + 1)
               /\ Len(call.asm) = n + 4 + pad
               /\ SubSeq(call.asm, 5, n + 4) = Payload(call.pat, n)
               /\ \A i \in n + 5 .. n + 3 + pad : call.asm[i] = 0
               /\ LastByte(call.asm) = pad
               /\ SubSeq(call.out, 1, 5) = << 1, 0, 0, 0, 0 >>
               /\ Len(call.out) = call.ret

\* C10: decode output bound. The bytes decode writes to the output buffer, and
\* the length it returns, never exceed out_len.
\* (Checked on the frames decode accepts.)
C10_DecodeWithinCapacity ==
    (call.op = "decode" /\ call.asm # << >>
        /\ call.in_len - 13 >= LastByte(call.asm) + 4)
        => (Len(call.out) <= call.out_len /\ call.returned /\ call.ret <= call.out_len)

\* C4: structural gating. A frame shorter than 17 bytes, or whose first byte
\* is not 1, or whose length minus 13 is not a multiple of 16, makes decode
\* return 0 and leave the output buffer untouched, whatever else it holds.
C4_StructuralGating ==
    (call.op = "decode"
        /\ (\/ call.in_len < 17
            \/ call.frame[1] # 1
            \/ (call.in_len - 13) % 16 # 0))
        => (call.returned /\ call.ret = 0 /\ call.out = << >>)

\* a frame of the right version and size, cut to a misaligned length, was dropped
C4_Witness ==
    /\ call.op = "decode"
    /\ call.in_len >= 17
    /\ call.frame[1] = 1
    /\ (call.in_len - 13) % 16 # 0
    /\ call.ret = 0

\* frames decode drops for their size, version or alignment
RejectingTampers == {"version", "trunc", "short"}

\* C5 as stated: encode of an empty payload returns 13 + 16 = 29 bytes, decode
\* of that frame succeeds with a 0-length payload, and that result differs
\* from the result decode gives for a frame it rejects.
C5_EmptyPayloadDistinguishable ==
    /\ (call.op = "encode" /\ call.in_len = 0 /\ call.out_len >= 29)
        => (call.returned /\ call.ret = 29 /\ Len(call.out) = 29)
    /\ (DecodedWire /\ wire.in_len = 0)
        => /\ call.returned /\ call.ret = 0 /\ call.out = << >>
           /\ \A t \in RejectingTampers :
                LET r == DecodeRun(priv, Tamper(wire.frame, t), call.out_len)
                IN  << r.ret, r.out >> # << call.ret, call.out >>

\* C5 as amended: given room for 29 bytes, encode of an empty payload returns
\* 29; decode of that frame accepts it (pad length 12) and returns 0 with
\* nothing written, which is exactly what it returns and writes for a frame
\* it rejects for its size, version or alignment.
C5_EmptyPayloadSameAsReject ==
    /\ (call.op = "encode" /\ call.in_len = 0 /\ call.out_len >= 29)
        => (call.returned /\ call.ret = 29 /\ Len(call.out) = 29)
    /\ (DecodedWire /\ wire.in_len = 0)
        => /\ call.returned /\ call.ret = 0 /\ call.out = << >>
           /\ LastByte(call.asm) = 12
           /\ \A t \in RejectingTampers :
                LET r == DecodeRun(priv, Tamper(wire.frame, t), call.out_len)
                IN  << r.ret, r.out >> = << call.ret, call.out >>

\* the frame of an empty payload was decoded and accepted
C5_Witness ==
    /\ DecodedWire
    /\ wire.in_len = 0
    /\ Len(call.frame) = 29
    /\ LastByte(call.asm) = 12
    /\ call.ret = 0

\* a finished call's result is the function of its arguments, its draws and
\* the keys derived from the secret at init
ResultsFromInitState ==
    \A c \in Callers :
        (thr[c].pc = "idle" /\ thr[c].op # "none")
            => LET p0 == setup_aes_key(conf)
                   r  == IF thr[c].op = "encode"
                         THEN EncodeRun(p0, thr[c].in_len, thr[c].pat, OutCap, thr[c].d, 0)
                         ELSE DecodeRun(p0, thr[c].frame, OutCap)
               IN  thr[c].ret = r.ret /\ thr[c].out = r.out

KeysUnchanged == (lifecycle = "Ready" /\ lifecycle' = "Ready") => priv' = priv

\* C6: once init has completed, no step of encode, decode or tick, in any
\* interleaving across callers, changes enc_key, dec_key, iv_enc_key or
\* iv_ext_val, and every finished call's result depends only on its own
\* arguments and draws and on the state fixed at init.
C6_StateImmutable == [](ResultsFromInitState) /\ [][KeysUnchanged]_vars

\* one caller finished a decode that recovered a payload while the other is
\* between its two reads of the keys, and a tick has run
C6_Witness ==
    /\ call.op = "tick"
    /\ thr["edge"].pc = "rev_cbc"
    /\ thr["peer"].pc = "idle"
    /\ thr["peer"].op = "decode"
    /\ thr["peer"].ret = 12

\* C7: key-size selection. For a secret of length L the bulk cipher is keyed
\* with 256 bits when L >= 32, 192 bits when 24 <= L < 32 and 128 bits
\* otherwise; enc_key and dec_key use the same length and the same leading
\* slice of the digest; iv_enc_key is always keyed with 128 bits.
C7_KeySizeSelection ==
    (lifecycle = "Ready")
        => LET L      == Len(conf)
               bits   == IF L >= 32 THEN 256 ELSE IF L >= 24 THEN 192 ELSE 128
               digest == SHA512(conf)
           IN  /\ priv.enc_key.bits = bits
               /\ priv.dec_key.bits = bits
               /\ priv.enc_key.key = SubSeq(digest, 1, bits \div 8)
               /\ priv.dec_key.key = priv.enc_key.key
               /\ priv.iv_enc_key.bits = 128
               /\ priv.iv_enc_key.key = SubSeq(digest, 33, 48)

\* a 24-byte secret was set up
C7_Witness ==
    /\ lifecycle = "Ready"
    /\ Len(conf) = 24
    /\ priv.enc_key.bits = 192

====
